---------------------------- MODULE Spec2Model ----------------------------
(***************************************************************************)
(* Model of metrique-writer-format-emf/tools/put-logs.py: one invocation   *)
(* of main(), from argument parsing to the single put_log_events call.     *)
(*                                                                         *)
(* JSON values are tagged records; JSON text is a sequence of tokens       *)
(* (punctuation, whitespace, string / integer / null literals).            *)
(* json.loads is a recursive-descent parser over the tokens, json.dumps    *)
(* writes the tokens with Python's default separators ", " and ": ".       *)
(***************************************************************************)
EXTENDS Integers, Sequences, FiniteSets, TLC

(***************************************************************************)
(* Bounds of the model.                                                    *)
(***************************************************************************)
\* longest JSON array enumerated as file content
MaxRecords == 2
\* clock resolution: ticks per millisecond of the float time.time() * 1000
TicksPerMs == 2
\* the literal 1000 of int(time.time() * 1000 - 1000)
OffsetMs == 1000

(***************************************************************************)
(* JSON values (what json.loads returns).                                  *)
(***************************************************************************)
JInt(n) == [t |-> "int", n |-> n]
JStr(s) == [t |-> "str", s |-> s]
JNull == [t |-> "null"]
JArr(a) == [t |-> "arr", a |-> a]
\* a dict: insertion-ordered sequence of [k, v] entries, keys unique
JObj(m) == [t |-> "obj", m |-> m]

IsDict(v) == v.t = "obj"

HasKey(d, key) == \E i \in 1..Len(d.m) : d.m[i].k = key

KeyIndex(d, key) == CHOOSE i \in 1..Len(d.m) : d.m[i].k = key

\* d.get(key, default)
DictGet(d, key, default) ==
    IF HasKey(d, key) THEN d.m[KeyIndex(d, key)].v ELSE default

\* d[key] = val: replaces in place, or appends a new entry
DictSet(d, key, val) ==
    IF HasKey(d, key)
    THEN JObj([d.m EXCEPT ![KeyIndex(d, key)].v = val])
    ELSE JObj(Append(d.m, [k |-> key, v |-> val]))

(***************************************************************************)
(* JSON text: tokens.                                                      *)
(***************************************************************************)
Punct(c) == [k |-> c]
Ws == [k |-> " "]
StrTok(s) == [k |-> "str", s |-> s]
IntTok(n) == [k |-> "int", n |-> n]
NullTok == [k |-> "null"]

RECURSIVE Dumps(_)
RECURSIVE DumpsItems(_, _)
RECURSIVE DumpsMembers(_, _)

\* elements a[i..] separated by ", "
DumpsItems(a, i) ==
    IF i > Len(a) THEN <<>>
    ELSE (IF i > 1 THEN <<Punct(","), Ws>> ELSE <<>>)
         \o Dumps(a[i]) \o DumpsItems(a, i + 1)

\* members m[i..] as "key": value separated by ", "
DumpsMembers(m, i) ==
    IF i > Len(m) THEN <<>>
    ELSE (IF i > 1 THEN <<Punct(","), Ws>> ELSE <<>>)
         \o <<StrTok(m[i].k), Punct(":"), Ws>> \o Dumps(m[i].v)
         \o DumpsMembers(m, i + 1)

\* an encoder that writes numbers as strings
Dumps_IntAsStr(v) ==
    CASE v.t = "int" -> <<StrTok(ToString(v.n))>>
      [] v.t = "str" -> <<StrTok(v.s)>>
      [] v.t = "null" -> <<NullTok>>
      [] v.t = "arr" -> <<Punct("[")>> \o DumpsItems(v.a, 1) \o <<Punct("]")>>
      [] v.t = "obj" -> <<Punct("{")>> \o DumpsMembers(v.m, 1) \o <<Punct("}")>>

\* json.dumps(v) with the default separators
Dumps(v) ==
    CASE v.t = "int" -> <<IntTok(v.n)>>
      [] v.t = "str" -> <<StrTok(v.s)>>
      [] v.t = "null" -> <<NullTok>>
      [] v.t = "arr" -> <<Punct("[")>> \o DumpsItems(v.a, 1) \o <<Punct("]")>>
      [] v.t = "obj" -> <<Punct("{")>> \o DumpsMembers(v.m, 1) \o <<Punct("}")>>

\* the same text without insignificant whitespace
Compact(text) == SelectSeq(text, LAMBDA tok : tok # Ws)

(***************************************************************************)
(* json.loads: recursive descent.  A result is [ok, v, p]: success, the    *)
(* value, and the position of the first token not consumed.                *)
(***************************************************************************)
ParseFail == [ok |-> FALSE, v |-> JNull, p |-> 0]
ParseOk(v, p) == [ok |-> TRUE, v |-> v, p |-> p]

RECURSIVE SkipWs(_, _)
SkipWs(text, p) ==
    IF p <= Len(text) /\ text[p] = Ws THEN SkipWs(text, p + 1) ELSE p

TokIs(text, p, c) == p <= Len(text) /\ text[p].k = c

RECURSIVE ParseValue(_, _)
RECURSIVE ParseMembers(_, _, _)
RECURSIVE ParseItems(_, _, _)

\* after '{' or ',': "key" : value, then ',' or '}'; a repeated key keeps
\* its first position and takes the last value
ParseMembers(text, p, acc) ==
    LET p1 == SkipWs(text, p) IN
    IF ~TokIs(text, p1, "str") THEN ParseFail
    ELSE LET p2 == SkipWs(text, p1 + 1) IN
         IF ~TokIs(text, p2, ":") THEN ParseFail
         ELSE LET r == ParseValue(text, SkipWs(text, p2 + 1)) IN
              IF ~r.ok THEN ParseFail
              ELSE LET acc2 == DictSet(acc, text[p1].s, r.v)
                       p3 == SkipWs(text, r.p)
                   IN IF TokIs(text, p3, ",") THEN ParseMembers(text, p3 + 1, acc2)
                      ELSE IF TokIs(text, p3, "}") THEN ParseOk(acc2, p3 + 1)
                      ELSE ParseFail

\* after '[' or ',': value, then ',' or ']'
ParseItems(text, p, acc) ==
    LET r == ParseValue(text, SkipWs(text, p)) IN
    IF ~r.ok THEN ParseFail
    ELSE LET acc2 == Append(acc, r.v)
             p3 == SkipWs(text, r.p)
         IN IF TokIs(text, p3, ",") THEN ParseItems(text, p3 + 1, acc2)
            ELSE IF TokIs(text, p3, "]") THEN ParseOk(JArr(acc2), p3 + 1)
            ELSE ParseFail

ParseValue(text, p) ==
    IF p > Len(text) THEN ParseFail
    ELSE CASE text[p].k = "int" -> ParseOk(JInt(text[p].n), p + 1)
           [] text[p].k = "str" -> ParseOk(JStr(text[p].s), p + 1)
           [] text[p].k = "null" -> ParseOk(JNull, p + 1)
           [] text[p].k = "{" ->
                LET q == SkipWs(text, p + 1) IN
                IF TokIs(text, q, "}") THEN ParseOk(JObj(<<>>), q + 1)
                ELSE ParseMembers(text, q, JObj(<<>>))
           [] text[p].k = "[" ->
                LET q == SkipWs(text, p + 1) IN
                IF TokIs(text, q, "]") THEN ParseOk(JArr(<<>>), q + 1)
                ELSE ParseItems(text, q, <<>>)
           [] OTHER -> ParseFail

\* a decoder that stops after the first value and ignores what follows
Loads_NoEndCheck(text) == ParseValue(text, SkipWs(text, 1))

\* json.loads(text): one value, surrounded by whitespace only
Loads(text) ==
    LET r == ParseValue(text, SkipWs(text, 1)) IN
    IF r.ok /\ SkipWs(text, r.p) = Len(text) + 1 THEN r ELSE ParseFail


(***************************************************************************)
(* The clock.  time.time() * 1000 is a float number of milliseconds; the   *)
(* model keeps it as an integer number of ticks, TicksPerMs to the         *)
(* millisecond.  int() truncates towards zero.                             *)
(***************************************************************************)
IntTrunc(ticks) ==
    IF ticks >= 0 THEN ticks \div TicksPerMs ELSE -((-ticks) \div TicksPerMs)

\* the current time, with the offset forgotten
NormalizedTimestamp_NoOffset(now) == IntTrunc(now)

\* the offset added instead of subtracted
NormalizedTimestamp_Ahead(now) == IntTrunc(now + OffsetMs * TicksPerMs)

\* int(time.time() * 1000 - 1000)
NormalizedTimestamp(now) == IntTrunc(now - OffsetMs * TicksPerMs)

\* int(time.time() * 1000)
EventTimestamp(now) == IntTrunc(now)

\* a step of the wall clock backwards by more than the offset
BackJump == -((OffsetMs + 1) * TicksPerMs)

\* what the clock may do between two readings
ClockSteps == {0, 1, BackJump}

\* the clock when main() starts: later than the offset after one step back
ClockStart == (2 * OffsetMs + 1) * TicksPerMs

(***************************************************************************)
(* argparse.  An argv element is a positional word or an option with its   *)
(* value; a namespace attribute is [set, val], set = FALSE standing for    *)
(* None.                                                                   *)
(***************************************************************************)
Pos(v) == [flag |-> "", val |-> v]
Opt(f, v) == [flag |-> f, val |-> v]

None == [set |-> FALSE, val |-> ""]
Some(v) == [set |-> TRUE, val |-> v]

\* the namespace before any argument is consumed; extras counts the
\* arguments no add_argument matches, help records -h / --help
EmptyNamespace ==
    [file |-> None, log_group |-> None, log_stream |-> None, region |-> None,
     extras |-> 0, help |-> FALSE]

RECURSIVE ScanArgs(_, _, _)
ScanArgs(av, j, ns) ==
    IF j > Len(av) THEN ns
    ELSE LET a == av[j] IN
         ScanArgs(av, j + 1,
            CASE a.flag = "" ->
                    IF ns.file.set THEN [ns EXCEPT !.extras = @ + 1]
                    ELSE [ns EXCEPT !.file = Some(a.val)]
              [] a.flag = "--log-group" -> [ns EXCEPT !.log_group = Some(a.val)]
              [] a.flag = "--log-stream" -> [ns EXCEPT !.log_stream = Some(a.val)]
              [] a.flag = "--region" -> [ns EXCEPT !.region = Some(a.val)]
              [] a.flag = "-h" -> [ns EXCEPT !.help = TRUE]
              [] OTHER -> [ns EXCEPT !.extras = @ + 1])

\* --log-stream declared without required=True
RequiredPresent_StreamOptional(ns) == ns.file.set /\ ns.log_group.set

\* file, --log-group and --log-stream are required; --region is not
RequiredPresent(ns) == ns.file.set /\ ns.log_group.set /\ ns.log_stream.set

\* parser.parse_args(): "help" (usage printed, exit 0), "error" (usage
\* error, exit 2) or "ok" with the namespace
ParseArgs(av) ==
    LET ns == ScanArgs(av, 1, EmptyNamespace) IN
    IF ns.help THEN [status |-> "help", ns |-> ns]
    ELSE IF ~RequiredPresent(ns) \/ ns.extras > 0 THEN [status |-> "error", ns |-> ns]
    ELSE [status |-> "ok", ns |-> ns]

(***************************************************************************)
(* The loop body and the request.                                          *)
(***************************************************************************)
\* the dict left as it is
WrapDict_NoWrap(v) == v

\* isinstance(levts, dict): levts = [levts]
WrapDict(v) == IF IsDict(v) THEN JArr(<<v>>) ELSE v

\* iter(levts) raises TypeError for an int or None
Iterable(v) == v.t \in {"arr", "str", "obj"}

\* what "for e in levts" yields: the elements of a list, the keys of a
\* dict, the one-character strings of a str
Items(v) ==
    CASE v.t = "arr" -> v.a
      [] v.t = "obj" -> [j \in 1..Len(v.m) |-> JStr(v.m[j].k)]
      [] v.t = "str" -> [j \in 1..Len(v.s) |-> JStr("c")]
      [] OTHER -> <<>>

\* e.setdefault('_aws', {})['Timestamp'] = ts
NormalizeRecord_SetDefault(e, ts) ==
    DictSet(e, "_aws", DictSet(DictGet(e, "_aws", JObj(<<>>)), "Timestamp", JInt(ts)))

\* e.get('_aws', {})['Timestamp'] = ts.  The subscript store goes to the
\* mapping stored in e when the key is there, and to the fresh default
\* mapping, which nothing else refers to, when it is not.
NormalizeRecord(e, ts) ==
    IF HasKey(e, "_aws")
    THEN DictSet(e, "_aws", DictSet(DictGet(e, "_aws", JObj(<<>>)), "Timestamp", JInt(ts)))
    ELSE e

\* { 'message': json.dumps(m), 'timestamp': int(time.time() * 1000) }
LogEvent(m, now) == [message |-> Dumps(m), timestamp |-> EventTimestamp(now)]

\* the region never handed to the session
SessionKwargs_Ignored(ns) == <<>>

\* kwargs = {}; if args.region is not None: kwargs['region_name'] = args.region
SessionKwargs(ns) ==
    IF ns.region.set THEN << [k |-> "region_name", v |-> ns.region.val] >>
    ELSE <<>>

\* the events sent last first
PutRequest_Reversed(ns, evs) ==
    [logGroupName |-> ns.log_group.val,
     logStreamName |-> ns.log_stream.val,
     logEvents |-> [k \in 1..Len(evs) |-> evs[Len(evs) + 1 - k]]]

\* the keyword arguments of logs.put_log_events
PutRequest(ns, evs) ==
    [logGroupName |-> ns.log_group.val,
     logStreamName |-> ns.log_stream.val,
     logEvents |-> evs]

(***************************************************************************)
(* Inputs: command lines and file contents.                                *)
(***************************************************************************)
ArgFile == Pos("file.json")
ArgGroup == Opt("--log-group", "TestLogGroup")
ArgStream == Opt("--log-stream", "TestLogStream")
ArgRegion == Opt("--region", "us-east-1")

\* every subset of the four arguments in the order of the usage line, the
\* full line in another order, a repeated option, a second positional, -h
Argvs ==
    { SelectSeq(<<ArgFile, ArgGroup, ArgStream, ArgRegion>>, LAMBDA a : a \in chosen) :
        chosen \in SUBSET {ArgFile, ArgGroup, ArgStream, ArgRegion} }
    \cup { <<ArgRegion, ArgStream, ArgGroup, ArgFile>>,
           <<ArgFile, ArgGroup, Opt("--log-group", "OtherGroup"), ArgStream>>,
           <<ArgFile, Pos("other.json"), ArgGroup, ArgStream>>,
           <<Opt("-h", "")>>,
           <<ArgFile, ArgGroup, ArgStream, Opt("-h", "")>> }

\* records as the docstring shows them, and less complete ones
RecFull ==
    JObj(<< [k |-> "_aws",
             v |-> JObj(<< [k |-> "Timestamp", v |-> JInt(1)],
                           [k |-> "CloudWatchMetrics", v |-> JArr(<<>>)] >>)],
            [k |-> "label", v |-> JStr("value1")] >>)
RecNoAws == JObj(<< [k |-> "label", v |-> JStr("value2")] >>)
RecEmptyAws == JObj(<< [k |-> "_aws", v |-> JObj(<<>>)] >>)
RecBadAws == JObj(<< [k |-> "_aws", v |-> JArr(<<>>)] >>)

\* records the loop accepts, and all records
GoodRecords == {RecFull, RecNoAws, RecEmptyAws}
Records == GoodRecords \cup {RecBadAws}

\* the sequences over S of length at most n
RECURSIVE SeqsUpTo(_, _)
SeqsUpTo(S, n) ==
    IF n = 0 THEN {<<>>}
    ELSE LET shorter == SeqsUpTo(S, n - 1) IN
         shorter \cup { Append(q, x) : q \in shorter, x \in S }

\* JSON documents: one record, an array of records, and other shapes
Docs ==
    Records
    \cup { JArr(a) : a \in SeqsUpTo(GoodRecords, MaxRecords) }
    \cup { JArr(<<RecFull, RecBadAws>>), JArr(<<RecFull, JInt(1)>>),
           JInt(1), JNull, JStr(""), JStr("x") }

\* text that is not JSON: a record cut short, a record with something
\* after it, an array with a trailing comma
MalformedTexts ==
    { SubSeq(Dumps(RecNoAws), 1, n) : n \in 0..(Len(Dumps(RecNoAws)) - 1) }
    \cup { Dumps(r) \o <<Punct("}")>> : r \in Records }
    \cup { <<Punct("["), IntTok(1), Punct(","), Punct("]")>> }

\* {"_aws":1,"_aws":{}}: a key twice, which json.loads accepts
RepeatedKeyText ==
    <<Punct("{"), StrTok("_aws"), Punct(":"), IntTok(1), Punct(","),
      StrTok("_aws"), Punct(":"), Punct("{"), Punct("}"), Punct("}")>>

FileTexts ==
    { Dumps(d) : d \in Docs } \cup { Compact(Dumps(r)) : r \in Records }
    \cup MalformedTexts \cup {RepeatedKeyText}

NoFile == [exists |-> FALSE, text |-> <<>>]

Disks == {NoFile} \cup { [exists |-> TRUE, text |-> tx] : tx \in FileTexts }

(***************************************************************************)
(* State.                                                                  *)
(***************************************************************************)
VARIABLES
    argv,       \* sys.argv[1:]
    disk,       \* the file the positional argument names
    clock,      \* the wall clock, in ticks
    regressed,  \* history: the clock has stepped backwards
    pc,         \* the statement of main() to run next, or that ended the run
    exitCode,   \* the process's exit status, -1 while it runs
    args,       \* the namespace parse_args returned
    opened,     \* history: open(args.file) was called
    log,        \* the text read from the file
    levts,      \* the parsed value, then the list of records
    loaded,     \* history: levts as line 70 left it
    i,          \* index of the next item of the current iteration over levts
    normReads,  \* history: the clock reading taken for each record of the loop
    session,    \* the boto3 session: [created, kwargs]
    client,     \* session.client('logs') has returned
    events,     \* the logEvents list under construction
    calls       \* the put_log_events calls made, in order

vars == <<argv, disk, clock, regressed, pc, exitCode, args, opened, log, levts,
          loaded, i, normReads, session, client, events, calls>>

NoSession == [created |-> FALSE, kwargs |-> <<>>]

Init ==
    /\ argv \in Argvs
    /\ disk \in Disks
    /\ clock = ClockStart
    /\ regressed = FALSE
    /\ pc = "parse_args"
    /\ exitCode = -1
    /\ args = EmptyNamespace
    /\ opened = FALSE
    /\ log = <<>>
    /\ levts = JNull
    /\ loaded = JNull
    /\ i = 0
    /\ normReads = <<>>
    /\ session = NoSession
    /\ client = FALSE
    /\ events = <<>>
    /\ calls = <<>>

Running == exitCode = -1

\* sys.exit(code), or an exception nothing catches (status 1): the process
\* ends at the current statement
Exit(code) == pc' = pc /\ exitCode' = code

\* time.time(): the clock has moved by d since the last reading; in the
\* model it steps backwards at most once
Tick(d) ==
    /\ d \in ClockSteps
    /\ d < 0 => ~regressed
    /\ clock' = clock + d
    /\ regressed' = (regressed \/ d < 0)

(***************************************************************************)
(* The statements of main().                                               *)
(***************************************************************************)
\* line 62: args = parser.parse_args()
ParseArgsStep ==
    /\ Running
    /\ pc = "parse_args"
    /\ LET r == ParseArgs(argv) IN
       CASE r.status = "help" -> Exit(0) /\ UNCHANGED args
         [] r.status = "error" -> Exit(2) /\ UNCHANGED args
         [] OTHER -> pc' = "open" /\ args' = r.ns /\ UNCHANGED exitCode
    /\ UNCHANGED <<argv, disk, clock, regressed, opened, log, levts, loaded, i,
                   normReads, session, client, events, calls>>

\* lines 66-67: with open(args.file, 'r') as file: log = file.read()
OpenRead ==
    /\ Running
    /\ pc = "open"
    /\ opened' = TRUE
    /\ IF disk.exists
       THEN log' = disk.text /\ pc' = "loads" /\ UNCHANGED exitCode
       ELSE Exit(1) /\ UNCHANGED log
    /\ UNCHANGED <<argv, disk, clock, regressed, args, levts, loaded, i,
                   normReads, session, client, events, calls>>

\* line 68: levts = json.loads(log)
JsonLoads ==
    /\ Running
    /\ pc = "loads"
    /\ LET r == Loads(log) IN
       IF r.ok
       THEN levts' = r.v /\ pc' = "isinstance" /\ UNCHANGED exitCode
       ELSE Exit(1) /\ UNCHANGED levts
    /\ UNCHANGED <<argv, disk, clock, regressed, args, opened, log, loaded, i,
                   normReads, session, client, events, calls>>

\* lines 69-70: if isinstance(levts, dict): levts = [levts]
IsInstance ==
    /\ Running
    /\ pc = "isinstance"
    /\ levts' = WrapDict(levts)
    /\ loaded' = levts'
    /\ pc' = "for"
    /\ i' = 1
    /\ UNCHANGED <<argv, disk, clock, regressed, exitCode, args, opened, log,
                   normReads, session, client, events, calls>>

\* line 71: for e in levts, when levts is not iterable
ForRaise ==
    /\ Running
    /\ pc = "for"
    /\ ~Iterable(levts)
    /\ Exit(1)
    /\ UNCHANGED <<argv, disk, clock, regressed, args, opened, log, levts, loaded,
                   i, normReads, session, client, events, calls>>

\* lines 71-75: one pass of the loop body.  The right-hand side (the clock
\* reading) is evaluated before e.get and before the subscript store.
ForBody ==
    /\ Running
    /\ pc = "for"
    /\ Iterable(levts)
    /\ i <= Len(Items(levts))
    /\ \E d \in ClockSteps :
         /\ Tick(d)
         /\ LET e == Items(levts)[i]
                ts == NormalizedTimestamp(clock')
            IN IF IsDict(e) /\ IsDict(DictGet(e, "_aws", JObj(<<>>)))
               THEN /\ levts' = [levts EXCEPT !.a[i] = NormalizeRecord(e, ts)]
                    /\ normReads' = Append(normReads, clock')
                    /\ i' = i + 1
                    /\ UNCHANGED <<pc, exitCode>>
               ELSE /\ Exit(1)
                    /\ UNCHANGED <<levts, normReads, i>>
    /\ UNCHANGED <<argv, disk, args, opened, log, loaded, session, client,
                   events, calls>>

\* line 71: the iteration is exhausted
ForDone ==
    /\ Running
    /\ pc = "for"
    /\ Iterable(levts)
    /\ i > Len(Items(levts))
    /\ pc' = "session"
    /\ UNCHANGED <<argv, disk, clock, regressed, exitCode, args, opened, log,
                   levts, loaded, i, normReads, session, client, events, calls>>

\* lines 77-80: session = boto3.session.Session(**kwargs); the SDK may raise
CreateSession ==
    /\ Running
    /\ pc = "session"
    /\ \E ok \in BOOLEAN :
         IF ok
         THEN /\ session' = [created |-> TRUE, kwargs |-> SessionKwargs(args)]
              /\ pc' = "client"
              /\ UNCHANGED exitCode
         ELSE Exit(1) /\ UNCHANGED session
    /\ UNCHANGED <<argv, disk, clock, regressed, args, opened, log, levts, loaded,
                   i, normReads, client, events, calls>>

\* line 81: logs = session.client('logs'); the SDK may raise (no region)
CreateClient ==
    /\ Running
    /\ pc = "client"
    /\ \E ok \in BOOLEAN :
         IF ok
         THEN client' = TRUE /\ pc' = "events" /\ i' = 1 /\ UNCHANGED exitCode
         ELSE Exit(1) /\ UNCHANGED <<client, i>>
    /\ UNCHANGED <<argv, disk, clock, regressed, args, opened, log, levts, loaded,
                   normReads, session, events, calls>>

\* lines 85-88: the list comprehension builds one event per item of levts
BuildEvent ==
    /\ Running
    /\ pc = "events"
    /\ i <= Len(Items(levts))
    /\ \E d \in ClockSteps :
         /\ Tick(d)
         /\ events' = Append(events, LogEvent(Items(levts)[i], clock'))
    /\ i' = i + 1
    /\ UNCHANGED <<argv, disk, pc, exitCode, args, opened, log, levts, loaded,
                   normReads, session, client, calls>>

\* a failed call tried again
PutLogEvents_Retry ==
    /\ Running
    /\ pc = "events"
    /\ i > Len(Items(levts))
    /\ calls' = Append(calls, PutRequest(args, events))
    /\ \E ok \in BOOLEAN :
         IF ok THEN pc' = "done" /\ exitCode' = 0 ELSE UNCHANGED <<pc, exitCode>>
    /\ UNCHANGED <<argv, disk, clock, regressed, args, opened, log, levts, loaded,
                   i, normReads, session, client, events>>

\* lines 82-89: logs.put_log_events(...); the call returns or raises, and
\* main() returns after it
PutLogEvents ==
    /\ Running
    /\ pc = "events"
    /\ i > Len(Items(levts))
    /\ calls' = Append(calls, PutRequest(args, events))
    /\ \E ok \in BOOLEAN :
         IF ok THEN pc' = "done" /\ exitCode' = 0 ELSE Exit(1)
    /\ UNCHANGED <<argv, disk, clock, regressed, args, opened, log, levts, loaded,
                   i, normReads, session, client, events>>

Next ==
    \/ ParseArgsStep
    \/ OpenRead
    \/ JsonLoads
    \/ IsInstance
    \/ ForRaise
    \/ ForBody
    \/ ForDone
    \/ CreateSession
    \/ CreateClient
    \/ BuildEvent
    \/ PutLogEvents

Spec == Init /\ [][Next]_vars

(***************************************************************************)
(* Vocabulary of the properties.                                           *)
(***************************************************************************)
Ended == exitCode # -1

\* line 70 has run: levts is the record sequence
Wrapped == pc \in {"for", "session", "client", "events", "done"}

\* the loop of lines 71-75 has run to its end
Normalized == pc \in {"session", "client", "events", "done"}

\* what the command line holds, read off argv itself
Given(flag) == \E j \in 1..Len(argv) : argv[j].flag = flag

GivenValue(flag) ==
    argv[CHOOSE j \in 1..Len(argv) :
            /\ argv[j].flag = flag
            /\ \A h \in (j + 1)..Len(argv) : argv[h].flag # flag].val

RequiredMissing == ~Given("") \/ ~Given("--log-group") \/ ~Given("--log-stream")

\* d without the entry for key
RemoveKey(d, key) == JObj(SelectSeq(d.m, LAMBDA en : en.k # key))

\* a record with the Timestamp entry of its '_aws' mapping taken out
WithoutTimestamp(e) ==
    IF IsDict(e) /\ HasKey(e, "_aws") /\ IsDict(DictGet(e, "_aws", JNull))
    THEN DictSet(e, "_aws", RemoveKey(DictGet(e, "_aws", JNull), "Timestamp"))
    ELSE e

\* _aws.Timestamp of a record, JNull where there is none
AwsTimestamp(e) ==
    IF IsDict(e) /\ HasKey(e, "_aws") /\ IsDict(DictGet(e, "_aws", JNull))
    THEN DictGet(DictGet(e, "_aws", JNull), "Timestamp", JNull)
    ELSE JNull

\* the clock reading of a loop pass, in whole milliseconds
ReadingMs(k) == IntTrunc(normReads[k])

\* the one call's events carry the records, one each and in order
CallCarriesRecords ==
    /\ Len(calls) = 1
    /\ Len(calls[1].logEvents) = Len(Items(levts))
    /\ \A k \in 1..Len(Items(levts)) :
         calls[1].logEvents[k].message = Dumps(Items(levts)[k])

(***************************************************************************)
(* C1                                                                      *)
(***************************************************************************)
\* C1 as stated: whenever argument parsing, file read, JSON parse and
\* normalization have succeeded, the run that has ended has made exactly
\* one put_log_events call with one event per record, in input order.
C1_OneCallWhenNormalized == (Ended /\ Normalized) => CallCarriesRecords

\* C1 amended: whenever argument parsing, file read, JSON parse,
\* normalization and the creation of the session and of the client have
\* succeeded, the run that has ended has made exactly one put_log_events
\* call, with one event per record, event k carrying the serialization of
\* record k.
C1_OneCallWhenClientCreated == (Ended /\ Normalized /\ client) => CallCarriesRecords

C1_Witness ==
    /\ exitCode = 0
    /\ Len(calls) = 1
    /\ Len(calls[1].logEvents) = 2
    /\ calls[1].logEvents[1].message # calls[1].logEvents[2].message

(***************************************************************************)
(* C2                                                                      *)
(***************************************************************************)
\* the text of the file with the array brackets put around it
Bracketed(text) == <<Punct("[")>> \o text \o <<Punct("]")>>

\* the loop of lines 71-75 applied to recs with the given clock readings
NormalizePrefix(recs, reads) ==
    [k \in 1..Len(recs) |->
        IF k <= Len(reads)
        THEN NormalizeRecord(recs[k], NormalizedTimestamp(reads[k]))
        ELSE recs[k]]

\* C2: when the file holds a single JSON object R, the record sequence,
\* its normalization and the messages built are those the same statements
\* produce from the file [R] with the same clock readings.
C2_ObjectAsOneElementArray ==
    (Wrapped /\ IsDict(Loads(log).v)) =>
        LET alt == Loads(Bracketed(log))
            recs == WrapDict(alt.v)
        IN /\ alt.ok
           /\ loaded = recs
           /\ levts = JArr(NormalizePrefix(recs.a, normReads))
           /\ \A k \in 1..Len(events) :
                events[k].message = Dumps(NormalizePrefix(recs.a, normReads)[k])
           /\ \A c \in 1..Len(calls) : Len(calls[c].logEvents) = Len(recs.a)

C2_Witness ==
    /\ pc = "done"
    /\ IsDict(Loads(log).v)
    /\ Len(calls) = 1
    /\ Len(calls[1].logEvents) = 1
    /\ HasKey(Loads(log).v, "_aws")

(***************************************************************************)
(* C3                                                                      *)
(***************************************************************************)
\* C3 as stated: every record the loop has passed, one without '_aws'
\* included, has _aws.Timestamp = T - 1000 for the reading T of its pass.
C3_TimestampInEveryRecord ==
    \A k \in 1..Len(normReads) :
        AwsTimestamp(Items(levts)[k]) = JInt(ReadingMs(k) - OffsetMs)

\* C3 amended: every record the loop has passed that holds an '_aws'
\* mapping has _aws.Timestamp = T - 1000 for the reading T (in whole
\* milliseconds) of its pass; a record without '_aws' gets no
\* _aws.Timestamp at all.
C3_TimestampWhereAwsPresent ==
    \A k \in 1..Len(normReads) :
        IF HasKey(Items(loaded)[k], "_aws")
        THEN AwsTimestamp(Items(levts)[k]) = JInt(ReadingMs(k) - OffsetMs)
        ELSE AwsTimestamp(Items(levts)[k]) = JNull

C3_Witness ==
    /\ Normalized
    /\ \E k \in 1..Len(normReads) :
         /\ HasKey(Items(loaded)[k], "_aws")
         /\ normReads[k] % TicksPerMs # 0
         /\ AwsTimestamp(Items(levts)[k]) = JInt(ReadingMs(k) - OffsetMs)
    /\ \E k \in 1..Len(normReads) : ~HasKey(Items(loaded)[k], "_aws")

(***************************************************************************)
(* C4                                                                      *)
(***************************************************************************)
\* C4: while the clock has not gone backwards, every event built has a
\* timestamp at or after the _aws.Timestamp its own message holds, and no
\* event is built before every record has been normalized.
C4_EventNotBeforeRecord ==
    /\ Len(events) > 0 => (Normalized /\ Len(normReads) = Len(Items(levts)))
    /\ ~regressed =>
         \A k \in 1..Len(events) :
            LET ts == AwsTimestamp(Loads(events[k].message).v) IN
            ts # JNull => (ts.t = "int" /\ events[k].timestamp >= ts.n)

C4_Witness ==
    /\ pc = "done"
    /\ ~regressed
    /\ \E k \in 1..Len(events) :
         /\ AwsTimestamp(Loads(events[k].message).v) # JNull
         /\ events[k].timestamp > AwsTimestamp(Loads(events[k].message).v).n + OffsetMs

(***************************************************************************)
(* C5                                                                      *)
(***************************************************************************)
\* C5: once open() has been called on a missing file, or on a file whose
\* text is not JSON, the run never gets past reading and parsing: it ends
\* there with a non-zero status, no session or client is ever created and
\* no put_log_events call is ever made.
C5_NoNetworkOnBadFile ==
    (opened /\ (~disk.exists \/ disk.text \in MalformedTexts)) =>
        /\ pc = (IF disk.exists THEN "loads" ELSE "open")
        /\ Ended => exitCode # 0
        /\ ~session.created
        /\ ~client
        /\ calls = <<>>

C5_Witness ==
    /\ Ended
    /\ exitCode = 1
    /\ pc = "loads"
    /\ disk.text \in MalformedTexts
    /\ Len(disk.text) > Len(Dumps(RecNoAws))

(***************************************************************************)
(* C6                                                                      *)
(***************************************************************************)
\* what C6 and its amendment share: the run stays at parse_args, the file
\* is never opened, no session is created and no call is made
StopsAtParseArgs ==
    /\ pc = "parse_args"
    /\ ~opened
    /\ ~session.created
    /\ calls = <<>>

\* C6 as stated: when the file argument, --log-group or --log-stream is
\* missing, the run ends at parse_args with a non-zero status, before the
\* file is opened and with no network call.
C6_UsageErrorWhenRequiredMissing ==
    RequiredMissing => (StopsAtParseArgs /\ (Ended => exitCode # 0))

\* C6 amended: when the file argument, --log-group or --log-stream is
\* missing, the run ends at parse_args, before the file is opened and with
\* no network call; its status is the usage error's 2, except that with
\* -h on the command line the help is printed and the status is 0.
C6_StopsWhenRequiredMissing ==
    RequiredMissing =>
        (StopsAtParseArgs /\ (Ended => exitCode = (IF Given("-h") THEN 0 ELSE 2)))

C6_Witness ==
    /\ Ended
    /\ exitCode = 2
    /\ Given("")
    /\ Given("--log-stream")
    /\ ~Given("--log-group")
    /\ disk.exists

(***************************************************************************)
(* C7                                                                      *)
(***************************************************************************)
\* at most one call; a run that ended at the call statement made exactly
\* one call and has a non-zero status
SingleCallNoRetry ==
    /\ Len(calls) <= 1
    /\ (Len(calls) = 1 /\ pc # "done") => (Ended /\ exitCode # 0 /\ pc = "events")
    /\ Ended /\ exitCode # 0 => pc # "done"

\* C7 as stated: at most one put_log_events call is made; when it raises
\* the run ends with a non-zero status and no second call; the status is 0
\* only when that one call returned.
C7_ZeroOnlyAfterCall ==
    /\ SingleCallNoRetry
    /\ exitCode = 0 => (pc = "done" /\ Len(calls) = 1)

\* C7 amended: at most one put_log_events call is made; when it raises the
\* run ends with a non-zero status and no second call; apart from a run
\* with -h on the command line (help printed, status 0, no call) the status
\* is 0 only when that one call returned.
C7_ZeroOnlyAfterCallOrHelp ==
    /\ SingleCallNoRetry
    /\ (exitCode = 0 /\ ~Given("-h")) => (pc = "done" /\ Len(calls) = 1)
    /\ (exitCode = 0 /\ Given("-h")) => (pc = "parse_args" /\ calls = <<>>)

C7_Witness ==
    /\ Ended
    /\ exitCode = 1
    /\ pc = "events"
    /\ Len(calls) = 1
    /\ Len(calls[1].logEvents) > 0

(***************************************************************************)
(* C8                                                                      *)
(***************************************************************************)
\* C8: a session that has been created was given region_name, with the
\* value of --region, exactly when --region is on the command line, and no
\* argument otherwise; every call names the log group and the log stream
\* of the command line.
C8_RegionAndAddress ==
    /\ session.created =>
         session.kwargs =
            (IF Given("--region")
             THEN << [k |-> "region_name", v |-> GivenValue("--region")] >>
             ELSE <<>>)
    /\ \A c \in 1..Len(calls) :
         /\ calls[c].logGroupName = GivenValue("--log-group")
         /\ calls[c].logStreamName = GivenValue("--log-stream")

C8_Witness ==
    /\ session.created
    /\ Given("--region")
    /\ Len(calls) = 1
    /\ argv[1].flag = "--region"

(***************************************************************************)
(* C9                                                                      *)
(***************************************************************************)
\* C9: the message of every event built parses back to the record as the
\* loop left it; where the loaded record held an '_aws' mapping, the
\* message's _aws.Timestamp is the one the loop wrote.
C9_MessageRoundTrip ==
    \A k \in 1..Len(events) :
        LET r == Loads(events[k].message) IN
        /\ r.ok
        /\ r.v = Items(levts)[k]
        /\ HasKey(Items(loaded)[k], "_aws") =>
             AwsTimestamp(r.v) = JInt(ReadingMs(k) - OffsetMs)

C9_Witness ==
    /\ Len(events) = 2
    /\ AwsTimestamp(Items(loaded)[2]) = JInt(1)
    /\ AwsTimestamp(Loads(events[2].message).v) = JInt(NormalizedTimestamp(normReads[2]))

(***************************************************************************)
(* C10                                                                     *)
(***************************************************************************)
\* C10: the loop keeps the number and the order of the records and changes
\* nothing in a record but the Timestamp entry of its '_aws' mapping; a
\* record without '_aws' stays as loaded, and so is its message.
C10_OnlyTimestampChanges ==
    Wrapped =>
        /\ levts.t = loaded.t
        /\ Len(Items(levts)) = Len(Items(loaded))
        /\ \A k \in 1..Len(Items(levts)) :
             /\ WithoutTimestamp(Items(levts)[k]) = WithoutTimestamp(Items(loaded)[k])
             /\ (IsDict(Items(loaded)[k]) /\ ~HasKey(Items(loaded)[k], "_aws")) =>
                  /\ Items(levts)[k] = Items(loaded)[k]
                  /\ k <= Len(events) => events[k].message = Dumps(Items(loaded)[k])

C10_Witness ==
    /\ pc = "done"
    /\ Len(events) = 2
    /\ ~HasKey(Items(loaded)[1], "_aws")
    /\ HasKey(Items(loaded)[2], "_aws")
    /\ Items(levts)[2] # Items(loaded)[2]
    /\ events[1].message = Dumps(Items(loaded)[1])

=============================================================================
